---- MODULE Spec2Model ----
(***************************************************************************)
(* A model of the answer-selection engine of Neuroformic                   *)
(* (src/core/nlp.py, class QuestionAnalyzer).                              *)
(*                                                                         *)
(* Texts are TLA+ strings and the string operations of the code (lower,    *)
(* the substring test `in`, split, strip, endswith) are computed on their  *)
(* characters.  Scores are IEEE-754 binary64 values, kept exactly as a     *)
(* pair <<hi, lo>> that stands for hi * 2^-30 + lo * 2^-60, and every      *)
(* addition and subtraction rounds to 53 significant bits as Python does.  *)
(***************************************************************************)
EXTENDS Integers, Sequences, FiniteSets, TLC

VARIABLES
    pc,                  \* life cycle of the QuestionAnalyzer object
    nlp,                 \* self.nlp: the spaCy model
    use_transformers,    \* self.use_transformers
    sentiment_analyzer,  \* self.sentiment_analyzer: the sentiment pipeline
    question_classifier, \* self.question_classifier
    call,                \* the last method call: its arguments and outcome
    model_changed        \* the sentiment pipeline changed its state since that call

analyzer == <<nlp, use_transformers, sentiment_analyzer, question_classifier>>

vars == <<pc, nlp, use_transformers, sentiment_analyzer, question_classifier,
          call, model_changed>>

(***************************************************************************)
(* Python strings                                                          *)
(***************************************************************************)

Upper == <<"A","B","C","D","E","F","G","H","I","J","K","L","M",
           "N","O","P","Q","R","S","T","U","V","W","X","Y","Z">>

Lowercase == <<"a","b","c","d","e","f","g","h","i","j","k","l","m",
               "n","o","p","q","r","s","t","u","v","w","x","y","z">>

\* one character of str.lower()
LowerChar(c) ==
    IF \E i \in 1..Len(Upper) : Upper[i] = c
    THEN Lowercase[CHOOSE i \in 1..Len(Upper) : Upper[i] = c]
    ELSE c

\* str.lower()
RECURSIVE Lower(_)
Lower(s) ==
    IF s = "" THEN ""
    ELSE LowerChar(SubSeq(s, 1, 1)) \o Lower(Tail(s))

\* Python's `sub in s` on strings
Contains(sub, s) ==
    \E i \in 1..(Len(s) - Len(sub) + 1) : SubSeq(s, i, i + Len(sub) - 1) = sub

IsSpace(c) == c = " "

\* str.strip()
RECURSIVE LStrip(_)
LStrip(s) ==
    IF s # "" /\ IsSpace(SubSeq(s, 1, 1)) THEN LStrip(Tail(s)) ELSE s

RECURSIVE RStrip(_)
RStrip(s) ==
    IF s # "" /\ IsSpace(SubSeq(s, Len(s), Len(s)))
    THEN RStrip(SubSeq(s, 1, Len(s) - 1))
    ELSE s

Strip(s) == RStrip(LStrip(s))

\* str.endswith()
EndsWith(s, suffix) ==
    /\ Len(s) >= Len(suffix)
    /\ SubSeq(s, Len(s) - Len(suffix) + 1, Len(s)) = suffix

\* str.split(): the whitespace-delimited words, empty words dropped.
\* SplitFrom(s, cur) scans s with the word read so far in cur.
RECURSIVE SplitFrom(_, _)
SplitFrom(s, cur) ==
    IF s = "" THEN (IF cur = "" THEN <<>> ELSE <<cur>>)
    ELSE IF IsSpace(SubSeq(s, 1, 1))
         THEN (IF cur = "" THEN <<>> ELSE <<cur>>) \o SplitFrom(Tail(s), "")
         ELSE SplitFrom(Tail(s), cur \o SubSeq(s, 1, 1))

Split(s) == SplitFrom(s, "")

(***************************************************************************)
(* Python floats                                                           *)
(***************************************************************************)

Two30 == 2^30

\* the float literals of _score_option
F_0_0  == <<0, 0>>
F_0_5  == <<536870912, 0>>
F_0_3  == <<322122547, 214748352>>
F_0_2  == <<214748364, 858993472>>
F_0_1  == <<107374182, 429496736>>
F_0_05 == <<53687091, 214748368>>
F_1_0  == <<1073741824, 0>>

FLess(x, y) == x[1] < y[1] \/ (x[1] = y[1] /\ x[2] < y[2])
FLeq(x, y)  == x = y \/ FLess(x, y)

\* the unit in the last place of a positive value, in units of 2^-60:
\* a value whose leading bit is bit b of hi keeps the 53 bits down to 2^(b-22)
Ulp(hi) ==
    LET b == CHOOSE k \in 22..30 : hi >= 2^k /\ hi \div 2 < 2^k
    IN  2^(b - 22)

\* round to nearest, ties to even, to 53 significant bits
FRound(hi, lo) ==
    IF hi = 0 /\ lo = 0 THEN <<0, 0>>
    ELSE LET u    == Ulp(hi)
             r    == lo % u
             down == lo - r
             up   == down + u
             odd  == (down \div u) % 2 = 1
             pick == IF 2 * r > u \/ (2 * r = u /\ odd) THEN up ELSE down
         IN  IF pick >= Two30 THEN <<hi + 1, pick - Two30>> ELSE <<hi, pick>>

\* x + y for x, y >= 0
FAdd(x, y) ==
    LET lo == x[2] + y[2]
        hi == x[1] + y[1] + (lo \div Two30)
    IN  FRound(hi, lo % Two30)

\* x - y for x >= y >= 0
FSub(x, y) ==
    LET borrow == IF x[2] < y[2] THEN 1 ELSE 0
        lo     == x[2] - y[2] + borrow * Two30
        hi     == x[1] - y[1] - borrow
    IN  FRound(hi, lo)

FMin(x, y) == IF FLess(y, x) THEN y ELSE x
FMax(x, y) == IF FLess(x, y) THEN y ELSE x

\* 0.2 * (matches / n), lines 312: the binary64 value of the Python
\* expression for 1 <= matches <= n <= 4 (equal quotients give equal values)
FKeywordBonus(matches, n) ==
    CASE n = 0               -> "ZeroDivisionError"
      [] matches = n         -> <<214748364, 858993472>>   \* 0.2 * 1.0
      [] 2 * matches = n     -> <<107374182, 429496736>>   \* 0.2 * 0.5
      [] 3 * matches = n     -> <<71582788, 286331152>>    \* 0.2 * (1/3)
      [] 3 * matches = 2 * n -> <<143165576, 572662304>>   \* 0.2 * (2/3)
      [] 4 * matches = n     -> <<53687091, 214748368>>    \* 0.2 * 0.25
      [] 4 * matches = 3 * n -> <<161061273, 644245120>>   \* 0.2 * 0.75

(***************************************************************************)
(* The texts of the model                                                  *)
(***************************************************************************)

Questions ==
    {"Do you agree with this policy?", "Which color do you like?", "What is bad?"}

OptionTexts ==
    {"Strongly agree", "Strongly disagree", "No opinion", "I like the red colors best"}

\* the texts whose string computations are done once, before the search
MemoTexts == Questions \cup OptionTexts

(***************************************************************************)
(* The spaCy pipeline self.nlp: tokens with text, pos_, lemma_ and is_stop *)
(***************************************************************************)

Punctuation == {"?", ".", ",", "!"}

\* the tokenizer splits trailing punctuation off a whitespace-delimited word
RECURSIVE WordTokens(_)
WordTokens(w) ==
    IF Len(w) > 1 /\ SubSeq(w, Len(w), Len(w)) \in Punctuation
    THEN WordTokens(SubSeq(w, 1, Len(w) - 1)) \o <<SubSeq(w, Len(w), Len(w))>>
    ELSE <<w>>

RECURSIVE TokenTexts(_)
TokenTexts(words) ==
    IF words = <<>> THEN <<>>
    ELSE WordTokens(Head(words)) \o TokenTexts(Tail(words))

\* the tagger and lemmatizer on the words of the model's texts:
\* lower-cased word :> <<pos_, lemma_, is_stop>>
Lexicon ==
    ( "do"       :> <<"AUX", "do", TRUE>> @@
      "can"      :> <<"AUX", "can", TRUE>> @@
      "is"       :> <<"AUX", "be", TRUE>> @@
      "are"      :> <<"AUX", "be", TRUE>> @@
      "you"      :> <<"PRON", "you", TRUE>> @@
      "i"        :> <<"PRON", "I", TRUE>> @@
      "what"     :> <<"PRON", "what", TRUE>> @@
      "who"      :> <<"PRON", "who", TRUE>> @@
      "which"    :> <<"DET", "which", TRUE>> @@
      "this"     :> <<"DET", "this", TRUE>> @@
      "the"      :> <<"DET", "the", TRUE>> @@
      "no"       :> <<"DET", "no", TRUE>> @@
      "with"     :> <<"ADP", "with", TRUE>> @@
      "when"     :> <<"SCONJ", "when", TRUE>> @@
      "where"    :> <<"SCONJ", "where", TRUE>> @@
      "why"      :> <<"SCONJ", "why", TRUE>> @@
      "how"      :> <<"SCONJ", "how", TRUE>> @@
      "make"     :> <<"VERB", "make", TRUE>> @@
      "agree"    :> <<"VERB", "agree", FALSE>> @@
      "agrees"   :> <<"VERB", "agree", FALSE>> @@
      "disagree" :> <<"VERB", "disagree", FALSE>> @@
      "like"     :> <<"VERB", "like", FALSE>> @@
      "policy"   :> <<"NOUN", "policy", FALSE>> @@
      "color"    :> <<"NOUN", "color", FALSE>> @@
      "colors"   :> <<"NOUN", "color", FALSE>> @@
      "opinion"  :> <<"NOUN", "opinion", FALSE>> @@
      "paris"    :> <<"PROPN", "Paris", FALSE>> @@
      "bad"      :> <<"ADJ", "bad", FALSE>> @@
      "red"      :> <<"ADJ", "red", FALSE>> @@
      "strongly" :> <<"ADV", "strongly", FALSE>> @@
      "best"     :> <<"ADV", "well", FALSE>> @@
      "yes"      :> <<"INTJ", "yes", FALSE>> )

Token(t) ==
    LET w == Lower(t)
        e == IF w \in DOMAIN Lexicon THEN Lexicon[w]
             ELSE IF w \in Punctuation THEN <<"PUNCT", w, FALSE>>
             ELSE <<"X", w, FALSE>>
    IN  [text |-> t, pos_ |-> e[1], lemma_ |-> e[2], is_stop |-> e[3]]

\* self.nlp(text): the document, its text and its tokens
MakeDoc(text) ==
    LET ts == TokenTexts(Split(text))
    IN  [text |-> text, tokens |-> [i \in 1..Len(ts) |-> Token(ts[i])]]

DocMemo == [t \in MemoTexts |-> MakeDoc(t)] @@ <<>>

Doc(text) == IF text \in MemoTexts THEN DocMemo[text] ELSE MakeDoc(text)

(***************************************************************************)
(* The sentiment pipeline self.sentiment_analyzer.  Its state is a         *)
(* function from the class of a text to what a call on such a text does:   *)
(* emit a label, or raise.                                                 *)
(***************************************************************************)

Raises == "<raises>"

ClassifierLabels == {"POSITIVE", "NEGATIVE", "LABEL_0"}

Outcomes == ClassifierLabels \cup {Raises}

\* the attribute before a pipeline is assigned to it, and a loaded pipeline:
\* what a call does on the texts of special, and on every other text
NoPipeline == [loaded |-> FALSE]
Pipeline(default, special) == [loaded |-> TRUE, default |-> default, special |-> special]

\* the pipelines that treat the texts of D apart
Pipelines(D) == {Pipeline(d, f) : d \in Outcomes, f \in [D -> Outcomes]}

\* self.sentiment_analyzer(text)[0]['label'], or Raises
ClassifierCall(text) ==
    IF text \in DOMAIN sentiment_analyzer.special
    THEN sentiment_analyzer.special[text]
    ELSE sentiment_analyzer.default

(***************************************************************************)
(* QuestionAnalyzer                                                        *)
(***************************************************************************)

question_words ==
    <<"what", "when", "where", "who", "why", "how", "which", "can", "do", "is", "are">>

\* `x in list`
InList(x, list) == \E i \in 1..Len(list) : list[i] = x

\* a loop that ends on the text as it is, without strip()
RECURSIVE UnstrippedLoop(_, _, _)
UnstrippedLoop(i, first_words, doc) ==
    IF i > Len(question_words)
    THEN IF EndsWith(doc.text, "?") THEN "general_question" ELSE "statement"
    ELSE LET word == question_words[i]
         IN  IF InList(word, first_words)
             THEN CASE word = "what"  -> "factual"
                    [] word = "when"  -> "temporal"
                    [] word = "where" -> "spatial"
                    [] word = "who"   -> "person"
                    [] word = "why"   -> "reason"
                    [] word = "how"   -> "process"
                    [] word \in {"can", "do", "is", "are"} -> "yes_no"
                    [] OTHER -> "selection"
             ELSE UnstrippedLoop(i + 1, first_words, doc)

\* the loop of lines 134-151 from the i-th question word on
RECURSIVE QuestionWordLoop(_, _, _)
QuestionWordLoop(i, first_words, doc) ==
    IF i > Len(question_words)
    THEN IF EndsWith(Strip(doc.text), "?") THEN "general_question" ELSE "statement"
    ELSE LET word == question_words[i]
         IN  IF InList(word, first_words)
             THEN CASE word = "what"  -> "factual"
                    [] word = "when"  -> "temporal"
                    [] word = "where" -> "spatial"
                    [] word = "who"   -> "person"
                    [] word = "why"   -> "reason"
                    [] word = "how"   -> "process"
                    [] word \in {"can", "do", "is", "are"} -> "yes_no"
                    [] OTHER -> "selection"
             ELSE QuestionWordLoop(i + 1, first_words, doc)

\* a classifier that takes the first of the first three tokens that is a
\* question word, in the order of the text
RECURSIVE TextOrderLoop(_, _, _)
TextOrderLoop(j, first_words, doc) ==
    IF j > Len(first_words) THEN QuestionWordLoop(1, <<>>, doc)
    ELSE IF InList(first_words[j], question_words)
         THEN QuestionWordLoop(1, <<first_words[j]>>, doc)
         ELSE TextOrderLoop(j + 1, first_words, doc)

TextOrderType(doc) ==
    LET n == IF Len(doc.tokens) < 3 THEN Len(doc.tokens) ELSE 3
        first_words == [i \in 1..n |-> Lower(doc.tokens[i].text)]
    IN  TextOrderLoop(1, first_words, doc)

\* a classifier that looks at the first four tokens
FirstFourTokensType(doc) ==
    LET n == IF Len(doc.tokens) < 4 THEN Len(doc.tokens) ELSE 4
        first_words == [i \in 1..n |-> Lower(doc.tokens[i].text)]
    IN  QuestionWordLoop(1, first_words, doc)

_determine_question_type(doc) ==
    LET n == IF Len(doc.tokens) < 3 THEN Len(doc.tokens) ELSE 3
        first_words == [i \in 1..n |-> Lower(doc.tokens[i].text)]
    IN  QuestionWordLoop(1, first_words, doc)

positive_words ==
    <<"good", "great", "excellent", "best", "positive", "like", "love", "prefer">>

negative_words ==
    <<"bad", "poor", "worst", "negative", "dislike", "hate", "avoid", "terrible">>

\* sum(1 for word in words if word in text_lower)
RECURSIVE CountIn(_, _)
CountIn(words, text_lower) ==
    IF words = <<>> THEN 0
    ELSE (IF Contains(Head(words), text_lower) THEN 1 ELSE 0)
         + CountIn(Tail(words), text_lower)

\* a fallback that answers positive when the two counts are equal
RuleBasedTiesPositive(text) ==
    LET text_lower     == Lower(text)
        positive_count == CountIn(positive_words, text_lower)
        negative_count == CountIn(negative_words, text_lower)
    IN  IF positive_count >= negative_count THEN "positive" ELSE "negative"

\* the rule-based fallback, lines 177-191
RuleBased(text) ==
    LET text_lower     == Lower(text)
        positive_count == CountIn(positive_words, text_lower)
        negative_count == CountIn(negative_words, text_lower)
    IN  IF positive_count > negative_count THEN "positive"
        ELSE IF negative_count > positive_count THEN "negative"
        ELSE "neutral"

RuleBasedMemo == [t \in MemoTexts |-> RuleBased(t)] @@ <<>>

RuleBasedSentiment(text) ==
    IF text \in MemoTexts THEN RuleBasedMemo[text] ELSE RuleBased(text)

\* _analyze_sentiment without the try/except around the pipeline's call
UncaughtSentiment(text) ==
    IF use_transformers THEN Lower(ClassifierCall(text)) ELSE RuleBasedSentiment(text)

_analyze_sentiment(text) ==
    IF use_transformers /\ ClassifierCall(text) # Raises
    THEN Lower(ClassifierCall(text))
    ELSE RuleBasedSentiment(text)

IsKeywordToken(token) ==
    \/ token.pos_ \in {"NOUN", "PROPN"} /\ ~token.is_stop
    \/ token.pos_ \in {"VERB", "ADJ"} /\ ~token.is_stop

\* the lemmas of the keyword tokens, in order
RECURSIVE KeywordLemmas(_)
KeywordLemmas(tokens) ==
    IF tokens = <<>> THEN <<>>
    ELSE (IF IsKeywordToken(Head(tokens)) THEN <<Head(tokens).lemma_>> ELSE <<>>)
         \o KeywordLemmas(Tail(tokens))

\* [kw for kw in keywords if not (kw in seen or seen.add(kw))]
RECURSIVE Unique(_, _)
Unique(keywords, seen) ==
    IF keywords = <<>> THEN <<>>
    ELSE IF Head(keywords) \in seen THEN Unique(Tail(keywords), seen)
         ELSE <<Head(keywords)>> \o Unique(Tail(keywords), seen \cup {Head(keywords)})

\* an extraction that keeps every occurrence of a lemma
KeywordsWithDuplicates(doc) == KeywordLemmas(doc.tokens)

_extract_keywords(doc) == Unique(KeywordLemmas(doc.tokens), {})

\* a selector whose third branch leaves out "person"
StrategyWithoutPerson(question_type, sentiment, keywords) ==
    IF question_type = "yes_no" THEN "prefer_yes"
    ELSE IF question_type = "selection" THEN "keyword_match"
    ELSE IF question_type \in {"factual", "temporal", "spatial"} THEN "specific_info"
    ELSE IF question_type = "reason" THEN "explanation"
    ELSE "balanced"

_determine_answer_strategy(question_type, sentiment, keywords) ==
    IF question_type = "yes_no" THEN "prefer_yes"
    ELSE IF question_type = "selection" THEN "keyword_match"
    ELSE IF question_type \in {"factual", "temporal", "spatial", "person"} THEN "specific_info"
    ELSE IF question_type = "reason" THEN "explanation"
    ELSE "balanced"

_determine_expected_answer_type(doc, question_type) ==
    IF question_type = "yes_no" THEN "boolean"
    ELSE IF question_type = "selection" THEN "option"
    ELSE IF question_type = "temporal" THEN "date_time"
    ELSE IF question_type = "spatial" THEN "location"
    ELSE IF question_type = "person" THEN "entity"
    ELSE "text"

analyze_question(question_text) ==
    LET doc           == Doc(question_text)
        question_type == _determine_question_type(doc)
        sentiment     == _analyze_sentiment(question_text)
        keywords      == _extract_keywords(doc)
    IN  [question_type        |-> question_type,
         sentiment            |-> sentiment,
         keywords             |-> keywords,
         answer_strategy      |-> _determine_answer_strategy(question_type, sentiment, keywords),
         expected_answer_type |-> _determine_expected_answer_type(doc, question_type)]

\* any(word in option.lower() for word in phrases)
AnyIn(phrases, text) == \E i \in 1..Len(phrases) : Contains(phrases[i], Lower(text))

yes_phrases == <<"yes", "agree", "strongly agree", "definitely", "absolutely">>
no_phrases  == <<"no", "disagree", "strongly disagree", "definitely not">>

\* a positive check that only accepts a phrase standing as a word of its own
SaysYesAsWord(option) ==
    \E i \in 1..Len(yes_phrases) :
        \/ InList(yes_phrases[i], Split(Lower(option)))
        \/ Lower(option) = yes_phrases[i]

\* the tests of lines 303, 305 and 323 on an option text
SaysYes(option)   == AnyIn(yes_phrases, option)
SaysNo(option)    == AnyIn(no_phrases, option)
WordCount(option) == Len(Split(option))

OptionMemo ==
    [t \in MemoTexts |->
        [yes |-> SaysYes(t), no |-> SaysNo(t), words |-> WordCount(t)]] @@ <<>>

OptionTests(option) ==
    IF option \in MemoTexts THEN OptionMemo[option]
    ELSE [yes |-> SaysYes(option), no |-> SaysNo(option), words |-> WordCount(option)]

\* sum(1 for kw in analysis["keywords"] if kw in option_keywords)
RECURSIVE Matches(_, _)
Matches(keywords, option_keywords) ==
    IF keywords = <<>> THEN 0
    ELSE (IF InList(Head(keywords), option_keywords) THEN 1 ELSE 0)
         + Matches(Tail(keywords), option_keywords)

\* max(0.0, min(1.0, score))
Clamp(score) == FMax(F_0_0, FMin(F_1_0, score))

\* 0.2 * matches: the bonus of line 312 without the division
FMatchesBonus(matches) ==
    CASE matches = 1 -> <<214748364, 858993472>>   \* 0.2
      [] matches = 2 -> <<429496729, 644245120>>   \* 0.4
      [] matches = 3 -> <<644245094, 429496832>>   \* 0.6000000000000001
      [] matches = 4 -> <<858993459, 214748416>>   \* 0.8

\* a strategy step whose two prefer_yes checks are independent ifs
StrategyBothChecks(score, option, analysis) ==
    LET strategy == analysis.answer_strategy
        s1 == IF OptionTests(option).yes THEN FAdd(score, F_0_3) ELSE score
        s2 == IF OptionTests(option).no THEN FSub(s1, F_0_2) ELSE s1
    IN  IF strategy = "prefer_yes" THEN s2
        ELSE IF strategy = "keyword_match"
        THEN LET matches == Matches(analysis.keywords, KeywordLemmas(Doc(option).tokens))
             IN  IF matches > 0
                 THEN FAdd(score, FKeywordBonus(matches, Len(analysis.keywords)))
                 ELSE score
        ELSE score

\* a strategy step that does not divide the keyword bonus by len(keywords)
StrategyUndividedBonus(score, option, analysis) ==
    LET strategy == analysis.answer_strategy
    IN  IF strategy = "prefer_yes"
        THEN IF OptionTests(option).yes THEN FAdd(score, F_0_3)
             ELSE IF OptionTests(option).no THEN FSub(score, F_0_2)
             ELSE score
        ELSE IF strategy = "keyword_match"
        THEN LET matches == Matches(analysis.keywords, KeywordLemmas(Doc(option).tokens))
             IN  IF matches > 0 THEN FAdd(score, FMatchesBonus(matches)) ELSE score
        ELSE score

\* lines 301-312: the adjustment of the answer strategy
StrategyAdjusted(score, option, analysis) ==
    LET strategy == analysis.answer_strategy
    IN  IF strategy = "prefer_yes"
        THEN IF OptionTests(option).yes THEN FAdd(score, F_0_3)
             ELSE IF OptionTests(option).no THEN FSub(score, F_0_2)
             ELSE score
        ELSE IF strategy = "keyword_match"
        THEN LET matches == Matches(analysis.keywords, KeywordLemmas(Doc(option).tokens))
             IN  IF matches > 0
                 THEN FAdd(score, FKeywordBonus(matches, Len(analysis.keywords)))
                 ELSE score
        ELSE score

\* a sentiment step that takes 0.1 off whenever the two labels differ
SentimentPenalisesAnyDifference(score, option, analysis) ==
    IF _analyze_sentiment(option) = analysis.sentiment
    THEN FAdd(score, F_0_1)
    ELSE FSub(score, F_0_1)

\* lines 315-320: the adjustment of the sentiment match
SentimentAdjusted(score, option, analysis) ==
    LET option_sentiment == _analyze_sentiment(option)
    IN  IF option_sentiment = analysis.sentiment THEN FAdd(score, F_0_1)
        ELSE IF \/ analysis.sentiment = "positive" /\ option_sentiment = "negative"
                \/ analysis.sentiment = "negative" /\ option_sentiment = "positive"
             THEN FSub(score, F_0_1)
             ELSE score

\* a length step that leaves out the two limits
LengthBetweenLimits(score, option) ==
    LET words == OptionTests(option).words
    IN  IF 5 < words /\ words < 25 THEN FAdd(score, F_0_05) ELSE score

\* lines 323-325: the preference for 5 to 25 words
LengthAdjusted(score, option) ==
    LET words == OptionTests(option).words
    IN  IF 5 <= words /\ words <= 25 THEN FAdd(score, F_0_05) ELSE score

\* lines 292-325: the score before the clamp of line 328
RawScore(option, question, analysis) ==
    LengthAdjusted(
        SentimentAdjusted(StrategyAdjusted(F_0_5, option, analysis), option, analysis),
        option)

\* a scorer that neither divides the keyword bonus by len(keywords) nor clamps
ScoreUnclamped(option, question, analysis) ==
    LET matches == Matches(analysis.keywords, KeywordLemmas(Doc(option).tokens))
        s1 == IF analysis.answer_strategy = "keyword_match" /\ matches > 0
              THEN FAdd(F_0_5, FMatchesBonus(matches))
              ELSE StrategyAdjusted(F_0_5, option, analysis)
    IN  LengthAdjusted(SentimentAdjusted(s1, option, analysis), option)

_score_option(option, question, analysis) == Clamp(RawScore(option, question, analysis))

\* max(scores) of a non-empty list
RECURSIVE PyMax(_)
PyMax(xs) ==
    IF Len(xs) = 1 THEN xs[1]
    ELSE LET m == PyMax(Tail(xs)) IN IF FLess(Head(xs), m) THEN m ELSE Head(xs)

\* a list.index() that counts positions from 1
RECURSIVE PyIndexFromOne(_, _)
PyIndexFromOne(xs, x) == IF Head(xs) = x THEN 1 ELSE 1 + PyIndexFromOne(Tail(xs), x)

\* a search for the last position of x instead of the first
RECURSIVE PyIndexLast(_, _)
PyIndexLast(xs, x) ==
    IF xs[Len(xs)] = x THEN Len(xs) - 1 ELSE PyIndexLast(SubSeq(xs, 1, Len(xs) - 1), x)

\* list.index(x): the first position (0-based) of x
RECURSIVE PyIndex(_, _)
PyIndex(xs, x) == IF Head(xs) = x THEN 0 ELSE 1 + PyIndex(Tail(xs), x)

NoValue == "none"

Return(best_index, confidence) ==
    [outcome |-> "return", exception |-> NoValue,
     best_index |-> best_index, confidence |-> confidence]

Raise(exception) ==
    [outcome |-> "raise", exception |-> exception,
     best_index |-> NoValue, confidence |-> NoValue]

\* a ranker that answers an empty list with position 0 and confidence 0.0
BestAnswerOrDefault(scores) ==
    IF Len(scores) = 0 THEN Return(0, F_0_0)
    ELSE LET best_index == PyIndex(scores, PyMax(scores))
         IN  Return(best_index, scores[best_index + 1])

\* lines 110-115: max() of an empty list raises ValueError, and scores[i]
\* raises IndexError unless -len <= i < len
BestAnswer(scores) ==
    IF Len(scores) = 0 THEN Raise("ValueError")
    ELSE LET best_index == PyIndex(scores, PyMax(scores))
         IN  IF 0 <= best_index /\ best_index < Len(scores)
             THEN Return(best_index, scores[best_index + 1])
             ELSE IF -Len(scores) <= best_index /\ best_index < 0
             THEN Return(best_index, scores[Len(scores) + best_index + 1])
             ELSE Raise("IndexError")

(***************************************************************************)
(* The analyzer's life: construction, ranking calls, and the sentiment     *)
(* pipeline changing its state between calls.                              *)
(***************************************************************************)

\* the pipelines of the analyzer's life: one option text is treated apart
MainPipelines == Pipelines({"Strongly disagree"})

MaxLifeOptions == 2

LifeQuestions == {"Do you agree with this policy?", "What is bad?"}

LifeOptionTexts == {"Strongly agree", "Strongly disagree"}

LifeOptionLists == UNION {[1..n -> LifeOptionTexts] : n \in 0..MaxLifeOptions}

Init ==
    /\ pc = "start"
    /\ nlp = NoValue
    /\ use_transformers = FALSE
    /\ sentiment_analyzer = NoPipeline
    /\ question_classifier = NoValue
    /\ call = [op |-> "none", outcome |-> "none"]
    /\ model_changed = FALSE

\* what loading the spaCy model of lines 26-34 does: the first load succeeds;
\* it raises and the download and the second load succeed; the download
\* raises; or the second load raises
SpacyOutcomes == {"loads", "downloads", "download_raises", "load_raises"}

\* the exception that leaves __init__ from line 33 or line 34: the handler of
\* lines 30-34 has no handler of its own, so it is the library's exception
SpacyException(spacy) ==
    IF spacy = "download_raises" THEN "exception of spacy.cli.download"
    ELSE "exception of spacy.load"

\* a constructor whose object is usable after the spaCy model failed to load
InitLeavesObjectUsable(requested, spacy, pipelines, pipeline) ==
    /\ pc = "start"
    /\ model_changed' = FALSE
    /\ pc' = "ready"
    /\ call' = IF spacy \in {"download_raises", "load_raises"}
               THEN [op |-> "__init__", outcome |-> "raise",
                     exception |-> SpacyException(spacy)]
               ELSE [op |-> "__init__", outcome |-> "return", exception |-> NoValue,
                     requested |-> requested, pipelines |-> pipelines]
    /\ nlp' = "loaded"
    /\ use_transformers' = (requested /\ pipelines = 2)
    /\ sentiment_analyzer' = IF requested /\ pipelines >= 1 THEN pipeline ELSE NoPipeline
    /\ question_classifier' = IF requested /\ pipelines = 2 THEN "loaded" ELSE NoValue

\* QuestionAnalyzer(use_transformers=requested), lines 17-52.  spacy is what
\* loading the spaCy model does; pipelines is how many of the two pipelines
\* load.  When __init__ raises, the caller gets no object: nothing can be
\* called on it afterwards.
__init__(requested, spacy, pipelines, pipeline) ==
    /\ pc = "start"
    /\ model_changed' = FALSE
    /\ IF spacy \in {"download_raises", "load_raises"}
       THEN /\ pc' = "init_failed"
            /\ call' = [op |-> "__init__", outcome |-> "raise",
                        exception |-> SpacyException(spacy)]
            /\ UNCHANGED analyzer
       ELSE /\ pc' = "ready"
            /\ call' = [op |-> "__init__", outcome |-> "return", exception |-> NoValue,
                        requested |-> requested, pipelines |-> pipelines]
            /\ nlp' = "loaded"
            /\ use_transformers' = (requested /\ pipelines = 2)
            /\ sentiment_analyzer' =
                   IF requested /\ pipelines >= 1 THEN pipeline ELSE NoPipeline
            /\ question_classifier' =
                   IF requested /\ pipelines = 2 THEN "loaded" ELSE NoValue

\* a call of the pipeline raised while the texts were analysed
PipelineRaised(texts) ==
    use_transformers /\ \E t \in texts : ClassifierCall(t) = Raises

\* the call before this one was a ranking in which the pipeline raised
FailedBefore ==
    /\ call.op = "predict_best_answer"
    /\ call.outcome # "pending"
    /\ call.failed

\* an except clause that gives up the pipeline once a call of it has raised
DisablePipelineOnError(raised) ==
    /\ use_transformers' = (use_transformers /\ ~raised)
    /\ UNCHANGED <<nlp, sentiment_analyzer, question_classifier>>

\* the attributes of self after a call in which the pipeline raised or not:
\* the except clause of lines 174-175 logs a warning and assigns nothing, and
\* no other line of predict_best_answer and of what it calls assigns to self
AttributesAfterCall(raised) == UNCHANGED analyzer

\* predict_best_answer(question_text, options), lines 88-115
predict_best_answer(question_text, options) ==
    /\ pc = "ready"
    /\ \E analysis \in {analyze_question(question_text)} :
       \E scores \in {[i \in 1..Len(options) |->
                          _score_option(options[i], question_text, analysis)] @@ <<>>} :
       \E result \in {BestAnswer(scores)} :
          call' = [op            |-> "predict_best_answer",
                   question_text |-> question_text,
                   options       |-> options,
                   analysis      |-> analysis,
                   scores        |-> scores,
                   failed        |-> PipelineRaised(
                       {question_text} \cup {options[i] : i \in 1..Len(options)}),
                   after_failure |-> FailedBefore] @@ result
    /\ AttributesAfterCall(
           PipelineRaised({question_text} \cup {options[i] : i \in 1..Len(options)}))
    /\ model_changed' = FALSE
    /\ UNCHANGED pc

\* the sentiment pipeline is an external model: what it emits, and whether a
\* call on it raises, may change between two calls of the analyzer
PipelineChanges(pipeline) ==
    /\ pc = "ready"
    /\ sentiment_analyzer.loaded
    /\ sentiment_analyzer # pipeline
    /\ sentiment_analyzer' = pipeline
    /\ model_changed' = TRUE
    /\ UNCHANGED <<pc, nlp, use_transformers, question_classifier, call>>

Next ==
    \/ \E requested \in BOOLEAN, spacy \in SpacyOutcomes,
          pipelines \in 0..2, pipeline \in MainPipelines :
            __init__(requested, spacy, pipelines, pipeline)
    \/ \E question_text \in LifeQuestions, options \in LifeOptionLists :
            predict_best_answer(question_text, options)
    \/ \E pipeline \in MainPipelines : PipelineChanges(pipeline)

Spec == Init /\ [][Next]_vars

(***************************************************************************)
(* One call on a constructed analyzer: the initial states draw the         *)
(* analyzer's fields, as construction leaves them, and the arguments.      *)
(***************************************************************************)

\* the fields of an analyzer after __init__ returned, its pipeline among P
Constructed(P) ==
    /\ pc = "ready"
    /\ nlp = "loaded"
    /\ \/ /\ use_transformers = FALSE
          /\ sentiment_analyzer \in {NoPipeline} \cup P
          /\ question_classifier = NoValue
       \/ /\ use_transformers = TRUE
          /\ sentiment_analyzer \in P
          /\ question_classifier = "loaded"
    /\ model_changed = FALSE

Pending == call.outcome = "pending"

\* the call of op has returned or raised
Done(op) == call.op = op /\ call.outcome \in {"return", "raise"}

\* a method that only computes a value: it returns it and assigns nothing
Returns(value) ==
    /\ call' = [call EXCEPT !.outcome = "return", !.ret = value]
    /\ UNCHANGED <<pc, analyzer, model_changed>>

MaxOptions == 3

OptionLists == UNION {[1..n -> OptionTexts] : n \in 0..MaxOptions}

InitRank ==
    /\ Constructed(MainPipelines)
    /\ call \in {[op |-> "predict_best_answer", outcome |-> "pending",
                  question_text |-> q, options |-> o] :
                     q \in Questions, o \in OptionLists}

NextRank ==
    /\ Pending
    /\ predict_best_answer(call.question_text, call.options)

SpecRank == InitRank /\ [][NextRank]_vars

\* " ".join(words)
RECURSIVE Join(_)
Join(words) ==
    IF words = <<>> THEN ""
    ELSE IF Len(words) = 1 THEN words[1]
    ELSE words[1] \o " " \o Join(Tail(words))

NoPipelines == Pipelines({})

(***************************************************************************)
(* _determine_question_type on the documents of texts of up to three words *)
(* followed by up to MaxTail more, with and without a final question mark  *)
(***************************************************************************)

MaxTail == 1

TypeWords ==
    {"what", "when", "where", "who", "why", "how", "which", "can", "do", "is", "are",
     "you", "What"}

TailWords == {"what", "are", "you"}

\* how a text ends after its last word
TypeEndings == {"", "?", "? "}

TypeWordLists ==
    UNION {[1..n -> TypeWords] : n \in 0..3}
    \cup {p \o t : p \in [1..3 -> TypeWords],
                   t \in UNION {[1..n -> TailWords] : n \in 1..MaxTail}}

InitType ==
    /\ Constructed(NoPipelines)
    /\ ~use_transformers
    /\ sentiment_analyzer = NoPipeline
    /\ call \in {[op |-> "_determine_question_type", outcome |-> "pending",
                  words |-> w, text |-> Join(w) \o mark, ret |-> NoValue] :
                     w \in TypeWordLists, mark \in TypeEndings}

NextType ==
    /\ Pending
    /\ call.op = "_determine_question_type"
    /\ Returns(_determine_question_type(Doc(call.text)))

SpecType == InitType /\ [][NextType]_vars

(***************************************************************************)
(* _determine_answer_strategy on every question type, and on values that   *)
(* are no question type                                                    *)
(***************************************************************************)

QuestionTypes ==
    {"factual", "temporal", "spatial", "person", "reason", "process", "selection",
     "yes_no", "general_question", "statement"}

Sentiments == {"positive", "negative", "neutral", "label_0"}

KeywordLists ==
    {<<>>, <<"color">>, <<"like", "color">>, <<"policy", "color", "red">>,
     <<"like", "red", "color", "policy">>}

InitStrategy ==
    /\ Constructed(NoPipelines)
    /\ ~use_transformers
    /\ sentiment_analyzer = NoPipeline
    /\ call \in {[op |-> "_determine_answer_strategy", outcome |-> "pending",
                  question_type |-> t, sentiment |-> sn, keywords |-> k,
                  ret |-> NoValue] :
                     t \in QuestionTypes \cup {"", "unknown"}, sn \in Sentiments,
                     k \in KeywordLists}

NextStrategy ==
    /\ Pending
    /\ call.op = "_determine_answer_strategy"
    /\ Returns(_determine_answer_strategy(call.question_type, call.sentiment,
                                          call.keywords))

SpecStrategy == InitStrategy /\ [][NextStrategy]_vars

(***************************************************************************)
(* _analyze_sentiment on texts of up to MaxSentimentWords words, with the  *)
(* pipeline absent, answering or raising                                   *)
(***************************************************************************)

MaxSentimentWords == 2

SentimentWords ==
    {"good", "great", "excellent", "best", "positive", "like", "love", "prefer",
     "bad", "poor", "worst", "negative", "dislike", "hate", "avoid", "terrible",
     "sky", "GOOD", "unlikely"}

SentimentExamples ==
    {"This is a great and excellent result", "This is terrible and bad",
     "The sky is present"}

SentimentTexts ==
    {Join(w) : w \in UNION {[1..n -> SentimentWords] : n \in 0..MaxSentimentWords}}
    \cup SentimentExamples

InitSentiment ==
    /\ Constructed(NoPipelines)
    /\ call \in {[op |-> "_analyze_sentiment", outcome |-> "pending",
                  text |-> t, ret |-> NoValue] : t \in SentimentTexts}

NextSentiment ==
    /\ Pending
    /\ call.op = "_analyze_sentiment"
    /\ Returns(_analyze_sentiment(call.text))

SpecSentiment == InitSentiment /\ [][NextSentiment]_vars

(***************************************************************************)
(* _score_option on option texts that trigger each adjustment, under every *)
(* strategy, question sentiment and keyword list                           *)
(***************************************************************************)

\* options of 4, 5, 25 and 26 words, around the limits of line 324
LengthOptions ==
    {"a a a a", "a  a a a a", Join([i \in 1..25 |-> "a"]), Join([i \in 1..26 |-> "a"])}

ScoreOptions ==
    {"Strongly agree", "Strongly disagree", "No opinion", "Paris",
     "I like the red colors best",
     "Yes I agree this is the best policy",
     "No I hate this bad red color policy",
     "Definitely not"} \cup LengthOptions

Strategies == {"prefer_yes", "keyword_match", "specific_info", "explanation", "balanced"}

ScoreAnalyses ==
    [answer_strategy : Strategies, sentiment : Sentiments, keywords : KeywordLists]

InitScore ==
    /\ Constructed(NoPipelines)
    /\ call \in {[op |-> "_score_option", outcome |-> "pending", option |-> o,
                  question |-> "Do you agree with this policy?", analysis |-> a,
                  ret |-> NoValue] :
                     o \in ScoreOptions, a \in ScoreAnalyses}

NextScore ==
    /\ Pending
    /\ call.op = "_score_option"
    /\ Returns(_score_option(call.option, call.question, call.analysis))

SpecScore == InitScore /\ [][NextScore]_vars

(***************************************************************************)
(* predict_best_answer on the agreement scenario, under every labelling    *)
(* the pipeline can give to the two agreement options                      *)
(***************************************************************************)

ScenarioQuestion == "Do you agree with this policy?"

ScenarioOptions == <<"Strongly agree", "Strongly disagree", "No opinion">>

ScenarioPipelines == Pipelines({"Strongly agree", "Strongly disagree"})

InitScenario ==
    /\ Constructed(ScenarioPipelines)
    /\ call = [op |-> "predict_best_answer", outcome |-> "pending",
               question_text |-> ScenarioQuestion, options |-> ScenarioOptions]

SpecScenario == InitScenario /\ [][NextRank]_vars

(***************************************************************************)
(* FormHandler.auto_fill_form on a constructed analyzer.  A radio button   *)
(* is its position in its group and the option text the page yields for    *)
(* it ("" when the label, the sibling text and the value are all empty).   *)
(***************************************************************************)

MaxGroups == 2

\* the radio buttons of one name, by the text each yields
RadioLists ==
    {<<"Strongly agree", "No opinion">>,
     <<"No opinion", "Strongly agree">>,
     <<"", "Strongly agree">>,
     <<"No opinion", "", "Strongly agree">>,
     <<"", "">>,
     <<"Strongly agree">>}

\* what extract_question_from_element yields for the first radio of a group
FormQuestions == {"", ScenarioQuestion}

\* radio_groups after the loop of lines 191-196, in the order of the names
Pages ==
    UNION {[1..n -> [question : FormQuestions, radios : RadioLists]] : n \in 0..MaxGroups}

FormPipelines == {Pipeline("NEGATIVE", <<>>)}

\* form_handler.py lines 137-175: the texts of the radios that yield one
extract_options_from_radio_group(radio_buttons) ==
    SelectSeq([j \in 1..Len(radio_buttons) |-> radio_buttons[j].text], LAMBDA t : t # "")

\* form_handler.py lines 199-214 from the k-th name on
RECURSIVE IdentifyFrom(_, _)
IdentifyFrom(page, k) ==
    IF k > Len(page) THEN <<>>
    ELSE LET radios  == [j \in 1..Len(page[k].radios) |->
                            [position |-> j, text |-> page[k].radios[j]]]
             options == extract_options_from_radio_group(radios)
         IN  (IF Len(radios) > 1 /\ page[k].question # "" /\ options # <<>>
              THEN <<[name |-> k, question |-> page[k].question,
                      options |-> options, elements |-> radios]>>
              ELSE <<>>) \o IdentifyFrom(page, k + 1)

\* a loop of lines 199-214 that keeps every named group
IdentifyEveryGroup(page) ==
    [k \in 1..Len(page) |->
        LET radios == [j \in 1..Len(page[k].radios) |->
                          [position |-> j, text |-> page[k].radios[j]]]
        IN  [name |-> k, question |-> page[k].question,
             options |-> extract_options_from_radio_group(radios),
             elements |-> radios]]

identify_radio_groups(page) == IdentifyFrom(page, 1)

\* element.click() of line 260: it clicks, it raises ElementNotInteractable
\* and the JavaScript click of line 274 clicks, or an exception reaches the
\* handler of line 277
ClickOutcomes == {"clicked", "js_clicked", "raises"}

InitForm ==
    /\ Constructed(FormPipelines)
    /\ call \in {[op |-> "auto_fill_form", outcome |-> "pending", submit |-> sb,
                  radio_groups |-> <<>>, next |-> 0,
                  radio_groups_answered |-> 0, details |-> <<>>, submitted |-> FALSE,
                  clicks |-> <<>>, last |-> [name |-> 0]] : sb \in BOOLEAN}

\* lines 231-245: the actions record and the radio groups of the page
StartAutoFill(page) ==
    /\ Pending
    /\ call.op = "auto_fill_form"
    /\ call.next = 0
    /\ call' = [call EXCEPT !.radio_groups = identify_radio_groups(page), !.next = 1]
    /\ UNCHANGED <<pc, analyzer, model_changed>>

\* a loop body whose JavaScript click also runs when the ranking failed
JsClickOnAnyFailure(group, result, click) ==
    IF click = "raises" THEN <<>>
    ELSE IF result.outcome = "return" THEN <<group.elements[result.best_index + 1]>>
    ELSE IF click = "js_clicked" THEN <<group.elements[1]>>
    ELSE <<>>

\* the element clicked in one pass of the loop, if any: lines 251-260, 274
Clicked(group, result, click) ==
    IF /\ result.outcome = "return"
       /\ 0 <= result.best_index
       /\ result.best_index < Len(group.elements)
       /\ click # "raises"
    THEN <<group.elements[result.best_index + 1]>>
    ELSE <<>>

\* lines 248-278: one pass of the loop over the radio groups.  nlp_raises: the
\* call of line 251 fails inside the analyzer
ProcessRadioGroup(nlp_raises, click) ==
    /\ Pending
    /\ call.op = "auto_fill_form"
    /\ call.next \in 1..Len(call.radio_groups)
    /\ \E group \in {call.radio_groups[call.next]} :
       \E analysis \in {analyze_question(group.question)} :
       \E scores \in {[i \in 1..Len(group.options) |->
                          _score_option(group.options[i], group.question, analysis)] @@ <<>>} :
       \E result \in {IF nlp_raises THEN Raise("exception of self.nlp")
                      ELSE BestAnswer(scores)} :
       \E clicked \in {Clicked(group, result, click)} :
          call' = [call EXCEPT
                     !.next = @ + 1,
                     !.clicks = @ \o clicked,
                     !.radio_groups_answered = @ + Len(clicked),
                     !.details =
                         IF clicked # <<>> /\ click = "clicked"
                         THEN Append(@, [type |-> "radio", question |-> group.question,
                                         selected_option |-> group.options[result.best_index + 1],
                                         confidence |-> result.confidence])
                         ELSE @,
                     !.last = [name |-> group.name, group |-> group, result |-> result,
                               clicked |-> clicked]]
    /\ UNCHANGED <<pc, analyzer, model_changed>>

\* lines 280-298: the submission and the return of the actions record
FinishAutoFill(submit_buttons, click_raises) ==
    /\ Pending
    /\ call.op = "auto_fill_form"
    /\ call.next > Len(call.radio_groups)
    /\ call' = [call EXCEPT !.outcome = "return",
                            !.submitted = call.submit /\ submit_buttons /\ ~click_raises]
    /\ UNCHANGED <<pc, analyzer, model_changed>>

NextForm ==
    \/ \E page \in Pages : StartAutoFill(page)
    \/ \E nlp_raises \in BOOLEAN, click \in ClickOutcomes : ProcessRadioGroup(nlp_raises, click)
    \/ \E submit_buttons \in BOOLEAN, click_raises \in BOOLEAN :
          FinishAutoFill(submit_buttons, click_raises)

SpecForm == InitForm /\ [][NextForm]_vars

(***************************************************************************)
(* Concurrent calls of predict_best_answer on one analyzer: each thread    *)
(* runs lines 102-115 step by step, and the steps interleave freely.       *)
(***************************************************************************)

Threads == {"t1", "t2"}

ThreadOptionLists ==
    {<<>>, <<"Strongly agree", "Strongly disagree">>, <<"Strongly disagree", "Strongly agree">>}

ThreadInputs == [question_text : LifeQuestions, options : ThreadOptionLists]

\* frames in which every call shares one set of local variables
SharedFrame(t) == "t1"

\* the frame holding the local variables analysis and scores of the call of
\* thread t: each call of a Python function has a frame of its own
Frame(t) == t

InitThreads ==
    /\ Constructed(MainPipelines)
    /\ call \in {[op |-> "concurrent predict_best_answer", outcome |-> "pending",
                  inputs |-> in,
                  at |-> [t \in Threads |-> "analyze"],
                  i |-> [t \in Threads |-> 1],
                  frames |-> [f \in Threads |-> [analysis |-> NoValue, scores |-> <<>>]],
                  results |-> [t \in Threads |-> Raise(NoValue)]] :
                     in \in [Threads -> ThreadInputs]}

\* lines 102-105: analysis = self.analyze_question(question_text); scores = []
Analyze(t) ==
    /\ call.op = "concurrent predict_best_answer"
    /\ call.at[t] = "analyze"
    /\ call' = [call EXCEPT
                  !.at[t] = "score",
                  !.frames[Frame(t)] =
                      [analysis |-> analyze_question(call.inputs[t].question_text),
                       scores |-> <<>>]]
    /\ UNCHANGED <<pc, analyzer, model_changed>>

\* lines 106-108: one pass of the loop over the options
ScoreOption(t) ==
    /\ call.op = "concurrent predict_best_answer"
    /\ call.at[t] = "score"
    /\ call.i[t] <= Len(call.inputs[t].options)
    /\ \E frame \in {call.frames[Frame(t)]} :
       \E score \in {_score_option(call.inputs[t].options[call.i[t]],
                                   call.inputs[t].question_text, frame.analysis)} :
          call' = [call EXCEPT !.i[t] = @ + 1,
                               !.frames[Frame(t)].scores = Append(@, score)]
    /\ UNCHANGED <<pc, analyzer, model_changed>>

\* lines 111-115: the position of the maximum, and the return
PickBest(t) ==
    /\ call.op = "concurrent predict_best_answer"
    /\ call.at[t] = "score"
    /\ call.i[t] > Len(call.inputs[t].options)
    /\ call' = [call EXCEPT !.at[t] = "done",
                            !.results[t] = BestAnswer(call.frames[Frame(t)].scores)]
    /\ UNCHANGED <<pc, analyzer, model_changed>>

NextThreads ==
    \E t \in Threads : Analyze(t) \/ ScoreOption(t) \/ PickBest(t)

SpecThreads == InitThreads /\ [][NextThreads]_vars

(***************************************************************************)
(* _extract_keywords on the documents of up to MaxTokens words             *)
(***************************************************************************)

MaxTokens == 3

KeywordWords == {"colors", "color", "Paris", "make", "agree", "red", "the", "strongly"}

KeywordDocs ==
    {[text |-> Join(w), tokens |-> [i \in 1..Len(w) |-> Token(w[i])]] :
        w \in UNION {[1..n -> KeywordWords] : n \in 0..MaxTokens}}

InitKeywords ==
    /\ Constructed(NoPipelines)
    /\ call \in {[op |-> "_extract_keywords", outcome |-> "pending", doc |-> d,
                  ret |-> NoValue] : d \in KeywordDocs}

NextKeywords ==
    /\ Pending
    /\ call.op = "_extract_keywords"
    /\ Returns(_extract_keywords(call.doc))

SpecKeywords == InitKeywords /\ [][NextKeywords]_vars

(***************************************************************************)
(* One process that constructs analyzers and form handlers and ranks with  *)
(* the latest analyzer.  loads counts, per model, the calls that loaded it.*)
(***************************************************************************)

MaxConstructions == 2

InitProcess ==
    /\ pc = "start"
    /\ nlp = NoValue
    /\ use_transformers = FALSE
    /\ sentiment_analyzer = NoPipeline
    /\ question_classifier = NoValue
    /\ model_changed = FALSE
    /\ call = [op |-> "process", outcome |-> "pending", constructions |-> 0,
               loads |-> [spacy |-> 0, sentiment |-> 0, classifier |-> 0],
               last |-> "none"]

\* nlp.py lines 17-52 run once more: spacy.load of line 28 or 34 and the two
\* pipeline(...) calls of lines 40 and 45 load their models again; nothing is
\* kept from an earlier construction
Construct(kind, requested, spacy, pipelines, pipeline) ==
    /\ call.op = "process"
    /\ call.constructions < MaxConstructions
    /\ model_changed' = FALSE
    /\ IF spacy \in {"download_raises", "load_raises"}
       THEN /\ call' = [call EXCEPT !.constructions = @ + 1,
                                    !.last = kind \o " raised"]
            /\ UNCHANGED <<pc, analyzer>>
       ELSE /\ pc' = "ready"
            /\ nlp' = "loaded"
            /\ use_transformers' = (requested /\ pipelines = 2)
            /\ sentiment_analyzer' =
                   IF requested /\ pipelines >= 1 THEN pipeline ELSE NoPipeline
            /\ question_classifier' =
                   IF requested /\ pipelines = 2 THEN "loaded" ELSE NoValue
            /\ call' = [call EXCEPT
                          !.constructions = @ + 1,
                          !.last = kind,
                          !.loads.spacy = @ + 1,
                          !.loads.sentiment = @ + (IF requested /\ pipelines >= 1 THEN 1 ELSE 0),
                          !.loads.classifier = @ + (IF requested /\ pipelines = 2 THEN 1 ELSE 0)]

\* QuestionAnalyzer(use_transformers=requested)
ConstructAnalyzer(requested, spacy, pipelines, pipeline) ==
    Construct("QuestionAnalyzer", requested, spacy, pipelines, pipeline)

\* FormHandler(driver), form_handler.py lines 25-35: self.nlp = QuestionAnalyzer()
ConstructFormHandler(spacy, pipelines, pipeline) ==
    Construct("FormHandler", TRUE, spacy, pipelines, pipeline)

\* a ranking call on the latest analyzer: it loads nothing
RankingCall(question_text, options) ==
    /\ call.op = "process"
    /\ pc = "ready"
    /\ \E analysis \in {analyze_question(question_text)} :
       \E scores \in {[i \in 1..Len(options) |->
                          _score_option(options[i], question_text, analysis)] @@ <<>>} :
          call' = [call EXCEPT !.last = BestAnswer(scores)]
    /\ UNCHANGED <<pc, analyzer, model_changed>>

NextProcess ==
    \/ \E requested \in BOOLEAN, spacy \in SpacyOutcomes, pipelines \in 0..2,
          pipeline \in MainPipelines :
            ConstructAnalyzer(requested, spacy, pipelines, pipeline)
    \/ \E spacy \in SpacyOutcomes, pipelines \in 0..2, pipeline \in MainPipelines :
            ConstructFormHandler(spacy, pipelines, pipeline)
    \/ \E question_text \in LifeQuestions, options \in ThreadOptionLists :
            RankingCall(question_text, options)

SpecProcess == InitProcess /\ [][NextProcess]_vars

(***************************************************************************)
(* The main window and its worker threads (ui/main_window.py).  workers    *)
(* holds every WorkerThread started, in the order of the starts; worker is *)
(* self.worker (0 for None); queue holds the finished_signal emissions the *)
(* window's thread has not yet delivered to process_finished.              *)
(***************************************************************************)

MaxWorkers == 2

Urls == {"", " ", "example.com"}

\* the paths of WorkerThread.run that end in an emission of finished_signal
RunPaths == {"navigation_failure", "success", "exception"}

\* line 244 drops the last reference to the previous WorkerThread.  Deleting
\* a QThread that is still running is an error of the program: the process
\* aborts, or the thread goes on running
RebindOutcomes == {"abort", "keeps_running"}

InitGui ==
    /\ pc = "start"
    /\ nlp = NoValue
    /\ use_transformers = FALSE
    /\ sentiment_analyzer = NoPipeline
    /\ question_classifier = NoValue
    /\ model_changed = FALSE
    /\ call = [op |-> "gui", outcome |-> "pending", crashed |-> FALSE,
               start_enabled |-> TRUE, stop_enabled |-> FALSE,
               status |-> "Ready", worker |-> 0, workers |-> <<>>, queue |-> <<>>]

Gui == call.op = "gui" /\ ~call.crashed

\* QThread.isRunning(): from start() until run has returned or the thread
\* has been ended
isRunning(w) == call.workers[w].state \in {"running", "emitted", "terminating"}

\* process_finished(success, message), lines 274-292, run for worker w
process_finished(window, w, success) ==
    [window EXCEPT !.start_enabled = TRUE,
                   !.stop_enabled = FALSE,
                   !.status = IF success THEN "Completed" ELSE "Failed",
                   !.workers[w].finished_calls = @ + 1]

\* start_process, lines 224-251
start_process(url, rebind) ==
    /\ Gui
    /\ IF Strip(url) = ""
       THEN UNCHANGED call
       ELSE /\ Len(call.workers) < MaxWorkers
            /\ LET shown == [call EXCEPT !.start_enabled = FALSE,
                                         !.stop_enabled = TRUE,
                                         !.status = "Processing..."]
               IN  IF call.worker # 0 /\ isRunning(call.worker) /\ rebind = "abort"
                   THEN call' = [shown EXCEPT !.crashed = TRUE]
                   ELSE call' = [shown EXCEPT
                                   !.workers = Append(@, [state |-> "running",
                                                          emitted |-> 0,
                                                          finished_calls |-> 0]),
                                   !.worker = Len(call.workers) + 1]
    /\ UNCHANGED <<pc, analyzer, model_changed>>

\* start_button.clicked, line 191: the button emits it only while enabled
StartButton(url, rebind) == call.start_enabled /\ start_process(url, rebind)

\* search_button.clicked, line 160: the button is never disabled
SearchButton(url, rebind) == start_process(url, rebind)

\* url_input.returnPressed, line 152
ReturnPressed(url, rebind) == start_process(url, rebind)

\* stop_process, lines 253-260, from stop_button.clicked of line 199.
\* terminate() ends a thread that has not yet reached the end of run at some
\* later time
stop_process ==
    /\ Gui
    /\ call.stop_enabled
    /\ IF call.worker # 0 /\ isRunning(call.worker)
       THEN call' = process_finished(
                        [call EXCEPT !.workers[call.worker].state =
                            IF @ = "running" THEN "terminating"
                            ELSE IF @ = "emitted" THEN "terminated" ELSE @],
                        call.worker, FALSE)
       ELSE UNCHANGED call
    /\ UNCHANGED <<pc, analyzer, model_changed>>

\* WorkerThread.run, lines 33-71, up to its emission of finished_signal: line
\* 48 after a failed navigation, line 67 at the end, line 71 in the handler.
\* The signal is queued for the window's thread.
run(w, path) ==
    /\ Gui
    /\ w \in 1..Len(call.workers)
    /\ call.workers[w].state \in {"running", "terminating"}
    /\ call' = [call EXCEPT
                  !.workers[w].state = IF @ = "running" THEN "emitted" ELSE "terminated",
                  !.workers[w].emitted = @ + 1,
                  !.queue = Append(@, [worker |-> w, success |-> path = "success"])]
    /\ UNCHANGED <<pc, analyzer, model_changed>>

\* run returns after its emission
RunReturns(w) ==
    /\ Gui
    /\ w \in 1..Len(call.workers)
    /\ call.workers[w].state = "emitted"
    /\ call' = [call EXCEPT !.workers[w].state = "finished"]
    /\ UNCHANGED <<pc, analyzer, model_changed>>

\* the thread ends after terminate() of line 258
Terminated(w) ==
    /\ Gui
    /\ w \in 1..Len(call.workers)
    /\ call.workers[w].state = "terminating"
    /\ call' = [call EXCEPT !.workers[w].state = "terminated"]
    /\ UNCHANGED <<pc, analyzer, model_changed>>

\* the window's thread delivers a queued finished_signal to the slot
\* connected at line 249
DeliverFinished ==
    /\ Gui
    /\ call.queue # <<>>
    /\ call' = process_finished([call EXCEPT !.queue = Tail(@)],
                                Head(call.queue).worker, Head(call.queue).success)
    /\ UNCHANGED <<pc, analyzer, model_changed>>

NextGui ==
    \/ \E url \in Urls, rebind \in RebindOutcomes : StartButton(url, rebind)
    \/ \E url \in Urls, rebind \in RebindOutcomes : SearchButton(url, rebind)
    \/ \E url \in Urls, rebind \in RebindOutcomes : ReturnPressed(url, rebind)
    \/ stop_process
    \/ \E w \in 1..MaxWorkers, path \in RunPaths : run(w, path)
    \/ \E w \in 1..MaxWorkers : RunReturns(w)
    \/ \E w \in 1..MaxWorkers : Terminated(w)
    \/ DeliverFinished

SpecGui == InitGui /\ [][NextGui]_vars

(***************************************************************************)
(* Properties of predict_best_answer                                       *)
(***************************************************************************)

Ranked == Done("predict_best_answer")

\* C1: for every question and every non-empty list of options,
\* predict_best_answer returns, and its best_index is a position of the list:
\* 0 <= best_index < len(options).
C1_BestIndexInRange ==
    (Ranked /\ Len(call.options) > 0) =>
        /\ call.outcome = "return"
        /\ call.best_index \in 0..(Len(call.options) - 1)

\* C1 happens: a call on three options returned the last position.
C1_Witness ==
    /\ Ranked
    /\ Len(call.options) = 3
    /\ call.outcome = "return"
    /\ call.best_index = 2

\* C2: for a non-empty list, scores holds one score per option in the order of
\* the options, confidence is the greatest of them, and best_index is the
\* first position that holds it.
C2_ConfidenceIsFirstMaximum ==
    (Ranked /\ Len(call.options) > 0) =>
        /\ call.outcome = "return"
        /\ Len(call.scores) = Len(call.options)
        /\ \A i \in 1..Len(call.options) :
              call.scores[i] =
                  _score_option(call.options[i], call.question_text, call.analysis)
        /\ \A i \in 1..Len(call.scores) : FLeq(call.scores[i], call.confidence)
        /\ call.best_index + 1 \in 1..Len(call.scores)
        /\ call.scores[call.best_index + 1] = call.confidence
        /\ \A i \in 1..call.best_index : call.scores[i] # call.confidence

\* C2 happens: the greatest score is held by two positions, neither the first
\* of the list, and the earlier of them is returned.
C2_Witness ==
    /\ Ranked
    /\ call.outcome = "return"
    /\ call.best_index = 1
    /\ Len(call.scores) = 3
    /\ call.scores[3] = call.confidence
    /\ call.scores[1] # call.confidence

WordsFound(words, text) == {i \in 1..Len(words) : Contains(words[i], Lower(text))}

CountLabel(text) ==
    LET p == Cardinality(WordsFound(positive_words, text))
        n == Cardinality(WordsFound(negative_words, text))
    IN  CASE p > n -> "positive"
          [] p < n -> "negative"
          [] p = n -> "neutral"

\* C9: when the sentiment pipeline is absent, or raises on the question, the
\* question's sentiment is the label of the rule-based fallback, and the
\* ranking of a non-empty list still returns a result.
C9_FallbackKeepsRankingAlive ==
    (Ranked /\ (~use_transformers \/ ClassifierCall(call.question_text) = Raises)) =>
        /\ call.analysis.sentiment = CountLabel(call.question_text)
        /\ Len(call.options) > 0 =>
              /\ call.outcome = "return"
              /\ call.best_index \in 0..(Len(call.options) - 1)

\* C9 happens: the pipeline is in use and raises on the question and on an
\* option, and the call returned.
C9_Witness ==
    /\ Ranked
    /\ use_transformers
    /\ ClassifierCall(call.question_text) = Raises
    /\ Len(call.options) = 2
    /\ ClassifierCall(call.options[2]) = Raises
    /\ call.analysis.sentiment = "negative"
    /\ call.outcome = "return"

(***************************************************************************)
(* Properties of _score_option                                             *)
(***************************************************************************)

Scored == Done("_score_option")

\* C4: for every option text, answer strategy, pair of sentiment labels and
\* keyword list, the value returned by _score_option lies in [0.0, 1.0].
C4_ScoreWithinUnitInterval ==
    Scored => (FLeq(F_0_0, call.ret) /\ FLeq(call.ret, F_1_0))

\* C4 happens: an option that says yes, shares the question's sentiment and has
\* between 5 and 25 words was scored under prefer_yes; every adjustment applied
\* and the score is 0.9500000000000001.
C4_Witness ==
    /\ Scored
    /\ call.analysis.answer_strategy = "prefer_yes"
    /\ SaysYes(call.option)
    /\ _analyze_sentiment(call.option) = call.analysis.sentiment
    /\ WordCount(call.option) \in 5..25
    /\ call.ret = <<1020054732, 858993536>>

(***************************************************************************)
(* Properties of _determine_question_type                                  *)
(***************************************************************************)

Typed == Done("_determine_question_type")

TypeTable ==
    [w \in {"what", "when", "where", "who", "why", "how", "which",
            "can", "do", "is", "are"} |->
        CASE w = "what"  -> "factual"
          [] w = "when"  -> "temporal"
          [] w = "where" -> "spatial"
          [] w = "who"   -> "person"
          [] w = "why"   -> "reason"
          [] w = "how"   -> "process"
          [] w = "which" -> "selection"
          [] OTHER       -> "yes_no"]

\* the recognized question words among the first three lower-cased words
LeadingQuestionWords(words) ==
    {Lower(words[i]) : i \in 1..(IF Len(words) < 3 THEN Len(words) ELSE 3)}
        \cap DOMAIN TypeTable

\* C6: when the first three lower-cased tokens of a question contain exactly
\* one recognized question word, _determine_question_type returns the type the
\* table gives for it; when they contain none, a question word at the fourth
\* token or later is not recognized and the result is no type of the table.
C6_QuestionTypeFollowsTable ==
    Typed =>
        /\ \A w \in DOMAIN TypeTable :
              LeadingQuestionWords(call.words) = {w} => call.ret = TypeTable[w]
        /\ LeadingQuestionWords(call.words) = {} =>
              call.ret \in {"general_question", "statement"}

\* C6 happens: "you you What are?" has one question word among its first
\* three tokens and another at the fourth, and was classified as factual.
C6_Witness ==
    /\ Typed
    /\ call.text = "you you What are?"
    /\ call.ret = "factual"

(***************************************************************************)
(* Properties of _determine_answer_strategy                                *)
(***************************************************************************)

Selected == Done("_determine_answer_strategy")

StrategyTable(question_type) ==
    CASE question_type = "yes_no" -> "prefer_yes"
      [] question_type = "selection" -> "keyword_match"
      [] question_type \in {"factual", "temporal", "spatial", "person"} -> "specific_info"
      [] question_type = "reason" -> "explanation"
      [] OTHER -> "balanced"

\* C7: the strategy is the one the table gives for the question type, whatever
\* the sentiment and the keywords; every type outside the table's first four
\* rows, known or not, gives balanced.
C7_StrategyDependsOnTypeOnly ==
    Selected => call.ret = StrategyTable(call.question_type)

\* C7 happens: a person question with a negative sentiment and four keywords
\* was given specific_info.
C7_Witness ==
    /\ Selected
    /\ call.question_type = "person"
    /\ call.sentiment = "negative"
    /\ Len(call.keywords) = 4
    /\ call.ret = "specific_info"

(***************************************************************************)
(* Properties of _analyze_sentiment                                        *)
(***************************************************************************)

Analyzed == Done("_analyze_sentiment")

\* C8: with the pipeline not in use, _analyze_sentiment returns positive,
\* negative or neutral as the count of positive words found in the lower-cased
\* text is above, below or equal to the count of negative words found; the
\* three example sentences are positive, negative and neutral.
C8_RuleBasedSentimentByCounts ==
    (Analyzed /\ ~use_transformers) =>
        /\ call.ret = CountLabel(call.text)
        /\ call.text = "This is a great and excellent result" => call.ret = "positive"
        /\ call.text = "This is terrible and bad" => call.ret = "negative"
        /\ call.text = "The sky is present" => call.ret = "neutral"

\* C8 happens: "like hate" has one word of each list and is neutral without
\* the pipeline.
C8_Witness ==
    /\ Analyzed
    /\ ~use_transformers
    /\ call.text = "like hate"
    /\ call.ret = "neutral"

\* C10: for every text and every state of the classifier, _analyze_sentiment
\* returns positive, negative or neutral.
C10_SentimentIsOneOfThree ==
    Analyzed => call.ret \in {"positive", "negative", "neutral"}

(***************************************************************************)
(* Properties of the ranking of the agreement scenario                     *)
(***************************************************************************)

\* C11: for 'Do you agree with this policy?' with the options 'Strongly
\* agree', 'Strongly disagree', 'No opinion', the analysis has type yes_no and
\* strategy prefer_yes, and the call returns best_index 0 with a confidence
\* strictly above the score of 'No opinion', with the pipeline in use or not.
C11_AgreementScenarioPicksFirst ==
    (Ranked /\ call.question_text = ScenarioQuestion /\ call.options = ScenarioOptions) =>
        /\ call.analysis.question_type = "yes_no"
        /\ call.analysis.answer_strategy = "prefer_yes"
        /\ call.outcome = "return"
        /\ call.best_index = 0
        /\ FLess(call.scores[3], call.confidence)

(***************************************************************************)
(* Properties of the construction                                          *)
(***************************************************************************)

InitRaised == call.op = "__init__" /\ call.outcome = "raise"

Processed == call.op = "auto_fill_form" /\ call.last.name # 0

\* the radios of a group that yielded an option text, in order: the j-th of
\* them is the one options[j - 1] was extracted from
Owners(group) == SelectSeq(group.elements, LAMBDA e : e.text # "")

\* C13: in every radio group, the radio that is clicked is the one from which
\* the option text options[best_index] was extracted, also when some radios
\* of the group yielded no option text.
C13_ClickedRadioOwnsWinningOption ==
    (Processed /\ call.last.clicked # <<>>) =>
        call.last.clicked[1] = Owners(call.last.group)[call.last.result.best_index + 1]

\* C14: when predict_best_answer fails for a radio group, that pass of the
\* loop clicks no radio, leaves radio_groups_answered as it was and adds no
\* details entry.
C14_FailedRankingClicksNothing ==
    [][(/\ call.op = "auto_fill_form"
        /\ call.next >= 1
        /\ call'.next = call.next + 1
        /\ call'.last.result.outcome = "raise")
       => /\ call'.clicks = call.clicks
          /\ call'.radio_groups_answered = call.radio_groups_answered
          /\ call'.details = call.details]_vars

\* C14 happens: the first group was answered, the ranking of the second one
\* failed, and there is still one click, one answer and one details entry.
C14_Witness ==
    /\ Processed
    /\ call.next = 3
    /\ call.last.result.outcome = "raise"
    /\ Len(call.clicks) = 1
    /\ call.radio_groups_answered = 1
    /\ Len(call.details) = 1

(***************************************************************************)
(* Properties of concurrent rankings                                       *)
(***************************************************************************)

\* what predict_best_answer returns for the inputs when it runs alone
Alone(in) ==
    LET analysis == analyze_question(in.question_text)
        scores   == [i \in 1..Len(in.options) |->
                        _score_option(in.options[i], in.question_text, analysis)]
    IN  BestAnswer(scores)

\* two outcomes of a call are the same return or the same exception
SameResult(a, b) ==
    /\ a.outcome = b.outcome
    /\ a.outcome = "return" => (a.best_index = b.best_index /\ a.confidence = b.confidence)
    /\ a.outcome = "raise" => a.exception = b.exception

\* C15: a ranking call assigns no field of the analyzer, and in every
\* interleaving of two calls on one analyzer each call ends with the result it
\* gives when it runs alone.
C15_ConcurrentRankingsAreIndependent ==
    /\ [](call.op = "concurrent predict_best_answer" =>
             \A t \in Threads :
                 call.at[t] = "done" => SameResult(call.results[t], Alone(call.inputs[t])))
    /\ [][analyzer' = analyzer]_vars

\* C15 happens: two calls with different inputs both finished, after the
\* second one started before the first one had picked its best option, with
\* different results.
C15_Witness ==
    /\ call.op = "concurrent predict_best_answer"
    /\ \A t \in Threads : call.at[t] = "done"
    /\ call.inputs["t1"] # call.inputs["t2"]
    /\ call.results["t1"].outcome = "return"
    /\ call.results["t2"].outcome = "return"
    /\ call.results["t1"].best_index # call.results["t2"].best_index

(***************************************************************************)
(* More properties of _determine_question_type                             *)
(***************************************************************************)

\* the position of a question word in the table order what, when, where,
\* who, why, how, which, can, do, is, are
TableRank(w) ==
    CHOOSE i \in 1..11 :
        <<"what", "when", "where", "who", "why", "how", "which",
          "can", "do", "is", "are">>[i] = w

\* the word of a non-empty set of question words that is first in that order
FirstInTable(ws) == CHOOSE w \in ws : \A v \in ws : TableRank(w) <= TableRank(v)

\* C16: when two or more different question words are among the first three
\* tokens, _determine_question_type returns the type of the one that comes
\* first in the table order, wherever the words stand in the text.
C16_TableOrderDecides ==
    (Typed /\ Cardinality(LeadingQuestionWords(call.words)) >= 2) =>
        call.ret = TypeTable[FirstInTable(LeadingQuestionWords(call.words))]

\* C16 happens: "is what you" has 'is' before 'what' and was classified as
\* factual.
C16_Witness ==
    /\ Typed
    /\ call.text = "is what you"
    /\ call.ret = "factual"

\* C17 as stated: with no question word among the first three tokens, the
\* result is general_question when the text ends with '?' and statement
\* otherwise.
C17_NoQuestionWordGoesByLastCharacter ==
    (Typed /\ LeadingQuestionWords(call.words) = {}) =>
        call.ret = IF Len(call.text) > 0 /\ SubSeq(call.text, Len(call.text), Len(call.text)) = "?"
                   THEN "general_question" ELSE "statement"

\* the text without the white space at its end
RECURSIVE TrimRight(_)
TrimRight(s) ==
    IF Len(s) > 0 /\ SubSeq(s, Len(s), Len(s)) \in {" ", "\t", "\n"}
    THEN TrimRight(SubSeq(s, 1, Len(s) - 1))
    ELSE s

\* C17, amended: with no question word among the first three tokens, the
\* result is general_question when the text without the white space around it
\* ends with '?', and statement otherwise; every call returns a type.
C17_NoQuestionWordGoesByLastVisibleCharacter ==
    /\ (Typed /\ LeadingQuestionWords(call.words) = {}) =>
          LET t == TrimRight(call.text)
          IN  call.ret = IF Len(t) > 0 /\ SubSeq(t, Len(t), Len(t)) = "?"
                         THEN "general_question" ELSE "statement"
    /\ Typed => /\ call.outcome = "return"
                /\ call.ret \in {"factual", "temporal", "spatial", "person", "reason",
                                 "process", "selection", "yes_no", "general_question",
                                 "statement"}

\* C17 happens: "you you? " has no question word and white space after its
\* question mark, and was classified as a general question.
C17_Witness ==
    /\ Typed
    /\ call.text = "you you? "
    /\ call.ret = "general_question"

(***************************************************************************)
(* More properties of _score_option                                        *)
(***************************************************************************)

\* the score returned when the strategy step leaves the value step: the
\* sentiment step, the length step and the clamp follow it
ScoreAfterStep(step) ==
    Clamp(LengthAdjusted(SentimentAdjusted(step, call.option, call.analysis), call.option))

\* phrase occurs in the lower-cased text, at any position, inside a word or not
HasLetters(phrase, text) ==
    \E i \in 1..(Len(text) - Len(phrase) + 1) :
        Lower(SubSeq(text, i, i + Len(phrase) - 1)) = phrase

HasYesPhrase(text) ==
    \E phrase \in {"yes", "agree", "strongly agree", "definitely", "absolutely"} :
        HasLetters(phrase, text)

HasNoPhrase(text) ==
    \E phrase \in {"no", "disagree", "strongly disagree", "definitely not"} :
        HasLetters(phrase, text)

C19_PositiveCheckIsSubstringTest ==
    (Scored /\ call.analysis.answer_strategy = "prefer_yes") =>
        /\ HasYesPhrase(call.option) => call.ret = ScoreAfterStep(FAdd(F_0_5, F_0_3))
        /\ call.option = "Strongly disagree" => call.ret = ScoreAfterStep(FAdd(F_0_5, F_0_3))
        /\ (~HasYesPhrase(call.option) /\ ~HasNoPhrase(call.option)) =>
              call.ret = ScoreAfterStep(F_0_5)

\* C19 happens: 'Strongly disagree' was scored under prefer_yes with the
\* question's sentiment, and got 0.5 + 0.3 + 0.1.
C19_Witness ==
    /\ Scored
    /\ call.analysis.answer_strategy = "prefer_yes"
    /\ call.option = "Strongly disagree"
    /\ call.ret = FAdd(FAdd(F_0_5, F_0_3), F_0_1)

\* the analysis keywords found among the option's content-word lemmas
KeywordsPresent ==
    LET lemmas == KeywordLemmas(Doc(call.option).tokens)
    IN  {i \in 1..Len(call.analysis.keywords) :
            \E j \in 1..Len(lemmas) : lemmas[j] = call.analysis.keywords[i]}

\* C20: under keyword_match the step adds 0.2 * (matches / len(keywords))
\* when matches > 0 and nothing otherwise; with an empty keyword list the call
\* returns and the step adds nothing.
C20_KeywordBonusIsGuarded ==
    (Scored /\ call.analysis.answer_strategy = "keyword_match") =>
        /\ call.outcome = "return"
        /\ Cardinality(KeywordsPresent) > 0 =>
              call.ret = ScoreAfterStep(FAdd(F_0_5,
                             FKeywordBonus(Cardinality(KeywordsPresent),
                                           Len(call.analysis.keywords))))
        /\ Cardinality(KeywordsPresent) = 0 => call.ret = ScoreAfterStep(F_0_5)

\* C20 happens: three of four keywords are lemmas of the option and the step
\* added 0.2 * 0.75.
C20_Witness ==
    /\ Scored
    /\ call.analysis.answer_strategy = "keyword_match"
    /\ Len(call.analysis.keywords) = 4
    /\ Cardinality(KeywordsPresent) = 3
    /\ call.ret = ScoreAfterStep(FAdd(F_0_5, <<161061273, 644245120>>))
    /\ FLess(F_0_5, call.ret)

\* the score returned when the sentiment step leaves the value step: the
\* length step and the clamp follow it
ScoreAfterSentimentStep(step) == Clamp(LengthAdjusted(step, call.option))

\* the value that enters the sentiment step
BeforeSentimentStep == StrategyAdjusted(F_0_5, call.option, call.analysis)

\* C21: the sentiment step adds 0.1 when the question's and the option's
\* labels are equal, takes 0.1 off when one is positive and the other
\* negative, and changes nothing when one is neutral and the other is not.
C21_SentimentAlignment ==
    Scored =>
        LET q == call.analysis.sentiment
            o == _analyze_sentiment(call.option)
        IN  /\ q = o => call.ret = ScoreAfterSentimentStep(FAdd(BeforeSentimentStep, F_0_1))
            /\ {q, o} = {"positive", "negative"} =>
                  call.ret = ScoreAfterSentimentStep(FSub(BeforeSentimentStep, F_0_1))
            /\ ("neutral" \in {q, o} /\ q # o) =>
                  call.ret = ScoreAfterSentimentStep(BeforeSentimentStep)

\* C21 happens: a negative option of eight words was scored for a positive
\* question under the balanced strategy, and got 0.5 - 0.1 + 0.05.
C21_Witness ==
    /\ Scored
    /\ call.analysis.answer_strategy = "balanced"
    /\ call.analysis.sentiment = "positive"
    /\ _analyze_sentiment(call.option) = "negative"
    /\ call.ret = FAdd(FSub(F_0_5, F_0_1), F_0_05)

\* the number of maximal runs of characters that are no white space
CountWords(text) ==
    Cardinality({i \in 1..Len(text) :
                    /\ SubSeq(text, i, i) \notin {" ", "\t", "\n"}
                    /\ (i = 1 \/ SubSeq(text, i - 1, i - 1) \in {" ", "\t", "\n"})})

\* the value that enters the length step
BeforeLengthStep ==
    SentimentAdjusted(StrategyAdjusted(F_0_5, call.option, call.analysis),
                      call.option, call.analysis)

\* C22: the length step adds 0.05 exactly when the option has between 5 and
\* 25 white-space-delimited words, limits included; with 4 or fewer or 26 or
\* more it changes nothing.
C22_LengthPreference ==
    Scored =>
        /\ CountWords(call.option) \in 5..25 =>
              call.ret = Clamp(FAdd(BeforeLengthStep, F_0_05))
        /\ CountWords(call.option) \notin 5..25 => call.ret = Clamp(BeforeLengthStep)

\* C22 happens: an option of 25 words with no other adjustment was scored
\* 0.5 + 0.05.
C22_Witness ==
    /\ Scored
    /\ CountWords(call.option) = 25
    /\ call.ret = FAdd(F_0_5, F_0_05)

(***************************************************************************)
(* Properties of _extract_keywords                                         *)
(***************************************************************************)

Extracted == Done("_extract_keywords")

\* the positions of the tokens that count: tagged NOUN, PROPN, VERB or ADJ
\* and no stop word
ContentPositions(tokens) ==
    {i \in 1..Len(tokens) :
        tokens[i].pos_ \in {"NOUN", "PROPN", "VERB", "ADJ"} /\ ~tokens[i].is_stop}

\* the first position at which a token that counts has the lemma
FirstPosition(tokens, lemma) ==
    CHOOSE i \in ContentPositions(tokens) :
        /\ tokens[i].lemma_ = lemma
        /\ \A j \in ContentPositions(tokens) : tokens[j].lemma_ = lemma => i <= j

\* C23: _extract_keywords returns the lemmas of exactly the tokens tagged
\* NOUN, PROPN, VERB or ADJ that are no stop words, each lemma once, in the
\* order of first occurrence; no tokens give the empty list.
C23_KeywordsAreUniqueContentLemmas ==
    Extracted =>
        LET tokens == call.doc.tokens
            ret    == call.ret
        IN  /\ {ret[k] : k \in 1..Len(ret)} =
                  {tokens[i].lemma_ : i \in ContentPositions(tokens)}
            /\ \A k, l \in 1..Len(ret) : k # l => ret[k] # ret[l]
            /\ \A k, l \in 1..Len(ret) :
                  k < l => FirstPosition(tokens, ret[k]) < FirstPosition(tokens, ret[l])
            /\ tokens = <<>> => ret = <<>>

\* C23 happens: the tokens colors, red, color gave the keywords color, red.
C23_Witness ==
    /\ Extracted
    /\ call.doc.text = "colors red color"
    /\ call.ret = <<"color", "red">>

(***************************************************************************)
(* Properties of the loading of the models                                 *)
(***************************************************************************)

\* C24: over every sequence of constructions of analyzers and form handlers
\* and of ranking calls in one process, each model is loaded at most once.
C24_ModelsLoadedAtMostOnce ==
    call.op = "process" =>
        /\ call.loads.spacy <= 1
        /\ call.loads.sentiment <= 1
        /\ call.loads.classifier <= 1

(***************************************************************************)
(* Properties of the range of the unclamped score                          *)
(***************************************************************************)

F_0_95 == <<1020054732, 858993408>>

UnclampedScore == RawScore(call.option, call.question, call.analysis)

\* the least and the greatest sums the steps of _score_option can produce,
\* added and subtracted in the order of the code
LowestScore == FSub(FSub(F_0_5, F_0_2), F_0_1)
HighestScore == FAdd(FAdd(FAdd(F_0_5, F_0_3), F_0_1), F_0_05)

\* C25 as stated: the unclamped score of every option lies between 0.2 and
\* 0.95.
C25_UnclampedBetweenStatedLimits ==
    Scored => FLeq(F_0_2, UnclampedScore) /\ FLeq(UnclampedScore, F_0_95)

\* C25: the clamp of _score_option never changes a value: the unclamped score
\* lies between 0.5 - 0.2 - 0.1 and 0.5 + 0.3 + 0.1 + 0.05 as binary64
\* computes them (0.19999999999999998 and 0.9500000000000001), so the
\* returned score is the unclamped one and is never 0.0 or 1.0.
C25_ClampNeverChangesScore ==
    Scored =>
        /\ call.ret = UnclampedScore
        /\ FLeq(LowestScore, UnclampedScore)
        /\ FLeq(UnclampedScore, HighestScore)
        /\ FLess(F_0_0, call.ret)
        /\ FLess(call.ret, F_1_0)

C25_Witness ==
    /\ Scored
    /\ call.ret = UnclampedScore
    /\ UnclampedScore = LowestScore
    /\ FLess(UnclampedScore, F_0_2)

C25_WitnessHighest ==
    /\ Scored
    /\ UnclampedScore = HighestScore
    /\ FLess(F_0_95, UnclampedScore)

(***************************************************************************)
(* Properties of the groups auto_fill_form ranks                           *)
(***************************************************************************)

Filling == call.op = "auto_fill_form"

WellFormedGroup(group) ==
    /\ Len(group.elements) >= 2
    /\ group.question # ""
    /\ Len(group.options) >= 1

\* C26: every group identify_radio_groups yields has at least two radio
\* buttons, a non-empty question and at least one option, so the call of
\* predict_best_answer in auto_fill_form never gets an empty question or an
\* empty options list.
C26_RankedGroupsAreWellFormed ==
    Filling =>
        /\ \A i \in 1..Len(call.radio_groups) : WellFormedGroup(call.radio_groups[i])
        /\ call.last.name # 0 =>
              /\ WellFormedGroup(call.last.group)
              /\ call.last.result.outcome = "raise" =>
                    call.last.result.exception # "ValueError"

\* the first group of the page was dropped and the second one was ranked
C26_Witness ==
    /\ Filling
    /\ call.next = 2
    /\ call.last.name = 2
    /\ call.last.result.outcome = "return"
    /\ Len(call.last.group.options) < Len(call.last.group.elements)

(***************************************************************************)
(* Properties of the use_transformers flag                                 *)
(***************************************************************************)

InitReturned == call.op = "__init__" /\ call.outcome = "return"

RankedByAnalyzer == call.op = "predict_best_answer"

\* C27: after construction use_transformers is True exactly when the
\* transformers were requested and both pipelines loaded; no later step
\* changes it; a ranking that follows one in which the pipeline raised still
\* has the flag and takes the question's sentiment from the pipeline whenever
\* the pipeline answers, and from the rules only when it raises again.
C27_FlagFixedAtConstruction ==
    /\ [](InitReturned =>
            use_transformers = (call.requested /\ call.pipelines = 2))
    /\ [][pc = "ready" => use_transformers' = use_transformers]_vars
    /\ []((RankedByAnalyzer /\ call.after_failure /\ ~model_changed) =>
            /\ use_transformers
            /\ call.analysis.sentiment =
                  IF ClassifierCall(call.question_text) = Raises
                  THEN CountLabel(call.question_text)
                  ELSE Lower(ClassifierCall(call.question_text)))

\* a ranking after one in which the pipeline raised: the pipeline answered
\* the question, against the rules' label
C27_Witness ==
    /\ RankedByAnalyzer
    /\ call.after_failure
    /\ ~model_changed
    /\ use_transformers
    /\ ClassifierCall(call.question_text) = "NEGATIVE"
    /\ call.analysis.sentiment = "negative"
    /\ CountLabel(call.question_text) # "negative"

\* a construction in which the transformers were requested and one pipeline
\* failed to load
C27_WitnessLoadFailure ==
    /\ InitReturned
    /\ call.requested
    /\ call.pipelines = 1
    /\ ~use_transformers

(***************************************************************************)
(* Properties of the record auto_fill_form returns                         *)
(***************************************************************************)

AutoFillReturned == Filling /\ call.outcome = "return"

RadioDetails == SelectSeq(call.details, LAMBDA d : d.type = "radio")

\* C28: when auto_fill_form has returned, radio_groups_answered is the number
\* of the details records of type 'radio' and at most the number of the
\* identified groups, whichever click made the selection.
C28_AnsweredCountMatchesDetails ==
    AutoFillReturned =>
        /\ call.radio_groups_answered = Len(RadioDetails)
        /\ call.radio_groups_answered <= Len(call.radio_groups)

(***************************************************************************)
(* Properties of the worker threads of the main window                     *)
(***************************************************************************)

Window == call.op = "gui"

RunningWorkers == {w \in 1..Len(call.workers) : isRunning(w)}

\* C29: at most one WorkerThread is running at any time, whatever the
\* sequence of Start, search, Enter and Stop events and worker completions.
C29_AtMostOneWorkerRunning ==
    Window => Cardinality(RunningWorkers) <= 1

\* the worker has ended and none of its signals waits for delivery
Settled(w) ==
    /\ call.workers[w].state \in {"finished", "terminated"}
    /\ \A i \in 1..Len(call.queue) : call.queue[i].worker # w

\* C30: process_finished runs exactly once for every started worker: never a
\* second time, and once when the worker has ended and its signal has been
\* delivered.
C30_ProcessFinishedExactlyOnce ==
    (Window /\ ~call.crashed) =>
        \A w \in 1..Len(call.workers) :
            /\ call.workers[w].finished_calls <= 1
            /\ Settled(w) => call.workers[w].finished_calls = 1
====
